---- MODULE Spec2Model ----
(***************************************************************************)
(* A model of the skills CLI: the GitHub reference parser, the market      *)
(* registry (persisted list, add, aggregated repository view) and the      *)
(* skill finder (find_by_name, search, and the search_skills of main.rs).  *)
(*                                                                         *)
(* A string is a sequence of atoms.  The atom "/" is the path separator;   *)
(* every other atom is a separator-free piece of text ("github.com",       *)
(* "tree", "a", ...).  Splitting, trimming, joining, containment and       *)
(* lower-casing are computed on these sequences as the code computes them  *)
(* on strings.                                                             *)
(***************************************************************************)
EXTENDS Integers, Sequences, FiniteSets, TLC

VARIABLES url, parsed, fileExists, markets, call, inst, dl, fs, procs

vars == <<url, parsed, fileExists, markets, call, inst, dl, fs, procs>>

-----------------------------------------------------------------------------
(* Bounds *)

\* the number of free segments after the prefix of a parser input
MaxSegs == 6

\* the number of entries of the persisted market list
MaxMarkets == 2

-----------------------------------------------------------------------------
(* String primitives *)

Slash == "/"

HostMarker == <<"github.com">>

TreeMarker == <<"tree">>

DefaultBranch == <<"main">>

RECURSIVE trim_end_matches(_)
trim_end_matches(s) ==
    IF s # <<>> /\ s[Len(s)] = Slash
    THEN trim_end_matches(SubSeq(s, 1, Len(s) - 1))
    ELSE s

\* the index of the first separator of s, or 0
first_slash(s) ==
    IF \E i \in 1..Len(s) : s[i] = Slash
    THEN CHOOSE i \in 1..Len(s) : s[i] = Slash /\ \A j \in 1..(i - 1) : s[j] # Slash
    ELSE 0

RECURSIVE split(_)
split(s) ==
    LET i == first_slash(s) IN
    IF i = 0 THEN <<s>>
    ELSE <<SubSeq(s, 1, i - 1)>> \o split(SubSeq(s, i + 1, Len(s)))

RECURSIVE join(_)
join(parts) ==
    IF parts = <<>> THEN <<>>
    ELSE IF Len(parts) = 1 THEN parts[1]
    ELSE parts[1] \o <<Slash>> \o join(Tail(parts))

contains(s, pat) ==
    \E i \in 1..(Len(s) - Len(pat) + 1) : SubSeq(s, i, i + Len(pat) - 1) = pat

\* 1-based index of the first element equal to x, 0 for None
position(parts, x) ==
    IF \E i \in 1..Len(parts) : parts[i] = x
    THEN CHOOSE i \in 1..Len(parts) : parts[i] = x /\ \A j \in 1..(i - 1) : parts[j] # x
    ELSE 0

to_lowercase_char(c) ==
    IF c = "A" THEN "a" ELSE IF c = "B" THEN "b" ELSE c

to_lowercase(s) == [i \in 1..Len(s) |-> to_lowercase_char(s[i])]

\* format!("{}/{}", a, b)
format_slash(a, b) == a \o <<Slash>> \o b

-----------------------------------------------------------------------------
(* github.rs: DefaultGitHubUrlParser::parse *)

NotCalled == [kind |-> "none", owner |-> <<>>, repo |-> <<>>, branch |-> <<>>, path |-> <<>>, err |-> ""]

ParseOk(o, r, b, p) == [kind |-> "ok", owner |-> o, repo |-> r, branch |-> b, path |-> p, err |-> ""]

ParseErr(msg) == [kind |-> "err", owner |-> <<>>, repo |-> <<>>, branch |-> <<>>, path |-> <<>>, err |-> msg]

\* an out-of-range slice aborts the process
ParsePanic == [kind |-> "panic", owner |-> <<>>, repo |-> <<>>, branch |-> <<>>, path |-> <<>>, err |-> "slice index out of range"]

invalid_format(u, parts) == Len(parts) < 5 \/ ~contains(u, HostMarker)

tree_index(parts) == position(parts, TreeMarker)

\* parts[idx0 + 2..] with idx0 the 0-based tree index: in range iff idx0 + 2 <= len
slice_in_range(parts, idx) == idx + 1 <= Len(parts)

\* mutant of branch_and_path: the branch is indexed without the bounds check
branch_and_path_unchecked(parts, idx) ==
    IF idx = 0 THEN ParseOk(<<>>, <<>>, DefaultBranch, <<>>)
    ELSE IF ~slice_in_range(parts, idx) THEN ParsePanic
    ELSE ParseOk(<<>>, <<>>, parts[idx + 1], join(SubSeq(parts, idx + 2, Len(parts))))

\* idx is the 1-based tree index (0: no "tree" segment)
branch_and_path(parts, idx) ==
    IF idx # 0
    THEN IF idx + 1 > Len(parts) THEN ParseErr("Branch not found in URL")
         ELSE IF ~slice_in_range(parts, idx) THEN ParsePanic
         ELSE ParseOk(<<>>, <<>>, parts[idx + 1], join(SubSeq(parts, idx + 2, Len(parts))))
    ELSE ParseOk(<<>>, <<>>, DefaultBranch, <<>>)

parse(u0) ==
    LET u == trim_end_matches(u0)
        parts == split(u)
    IN  IF invalid_format(u, parts) THEN ParseErr("Invalid GitHub URL format")
        ELSE LET github_index == position(parts, HostMarker) IN
             IF github_index = 0 THEN ParseErr("github.com not found in URL")
             ELSE IF github_index + 1 > Len(parts) THEN ParseErr("Owner not found in URL")
             ELSE IF github_index + 2 > Len(parts) THEN ParseErr("Repo not found in URL")
             ELSE LET bp == branch_and_path(parts, tree_index(parts)) IN
                  IF bp.kind # "ok" THEN bp
                  ELSE ParseOk(parts[github_index + 1], parts[github_index + 2],
                               bp.branch, bp.path)

-----------------------------------------------------------------------------
(* The record of the command in progress: which operation ran, on what, and what it
   returned and did.  Idle: no command has run since the last return. *)

Idle ==
    [op |-> "idle", arg |-> <<>>, outcome |-> "", saved |-> FALSE, before |-> <<>>,
     repos |-> <<>>, responses |-> <<>>, queried |-> <<>>, results |-> <<>>]

\* no install command has run
NoInstall ==
    [op |-> "idle", arg |-> <<>>, target |-> "", global |-> FALSE, repos |-> <<>>,
     responses |-> <<>>, matches |-> <<>>, input |-> <<>>, select_calls |-> 0,
     selected |-> <<>>, outcome |-> "", downloads |-> <<>>]

\* download_folder has not been called
NoDownload ==
    [pc |-> "idle", repo |-> NotCalled, target_dir |-> <<>>, skill_name |-> <<>>,
     archive |-> {}, extracted |-> {}, temp_dir |-> <<>>, extract_dir |-> <<>>,
     source_path |-> <<>>, dest_path |-> <<>>, outcome |-> "", failed_at |-> "", fs0 |-> {}]

\* no add_market process is running
NoProcs == <<>>

-----------------------------------------------------------------------------
(* Parser inputs *)

Segments == {<<>>, HostMarker, TreeMarker, <<"a">>, <<"w", "github.com">>}

HttpsHostPrefix == <<<<"https:">>, <<>>, HostMarker>>

SegSeqs == UNION {[1..n -> Segments] : n \in 0..MaxSegs}

ParseInputs == {join(p \o s) : p \in {<<>>, HttpsHostPrefix}, s \in SegSeqs}

InitParse ==
    /\ url \in ParseInputs
    /\ parsed = NotCalled
    /\ fileExists = FALSE
    /\ markets = <<>>
    /\ call = Idle
    /\ inst = NoInstall
    /\ dl = NoDownload
    /\ fs = {}
    /\ procs = NoProcs

ParseUrl ==
    /\ parsed.kind = "none"
    /\ parsed' = parse(url)
    /\ UNCHANGED <<url, fileExists, markets, call, inst, dl, fs, procs>>

NextParse == ParseUrl

SpecParse == InitParse /\ [][NextParse]_vars

-----------------------------------------------------------------------------
(* Claims about the parser, checked under SpecParse *)

\* the segments of the raw input
RawParts == split(url)

\* url has the shape https://github.com/<owner>/<repo>/tree/<branch>/<subpath...>[/]
TreeShape ==
    /\ Len(RawParts) >= 8
    /\ SubSeq(RawParts, 1, 3) = HttpsHostPrefix
    /\ RawParts[6] = TreeMarker
    /\ \A i \in 4..(Len(RawParts) - 1) : RawParts[i] # <<>>
    /\ RawParts[Len(RawParts)] = <<>> => Len(RawParts) >= 9

\* the input after the host segment, one trailing separator stripped
AfterHost ==
    LET rest == join(SubSeq(RawParts, 4, Len(RawParts))) IN
    IF rest # <<>> /\ rest[Len(rest)] = Slash THEN SubSeq(rest, 1, Len(rest) - 1) ELSE rest

Reconstruct(p) ==
    p.owner \o <<Slash>> \o p.repo \o <<Slash>> \o TreeMarker \o <<Slash>>
        \o p.branch \o <<Slash>> \o p.path

\* C1: for every reference https://github.com/<owner>/<repo>/tree/<branch>/<subpath>
\* (with or without a trailing separator) parse succeeds and owner/repo/tree/branch/subpath
\* rebuilt from its result equals the input after the host segment.
C1_ParseReconstructLossFree ==
    (parsed.kind # "none" /\ TreeShape) =>
        (parsed.kind = "ok" /\ Reconstruct(parsed) = AfterHost)

TrimmedParts == split(trim_end_matches(url))

\* the first "tree" segment located after index g, or 0
TreeAfter(parts, g) ==
    IF \E i \in (g + 1)..Len(parts) : parts[i] = TreeMarker
    THEN CHOOSE i \in (g + 1)..Len(parts) :
            parts[i] = TreeMarker /\ \A j \in (g + 1)..(i - 1) : parts[j] # TreeMarker
    ELSE 0

\* C2: owner and repo are the two segments after the host marker segment; branch and
\* subpath are decided only by a "tree" segment after the host marker (branch the segment
\* following it, subpath the rest rejoined), and are "main" and "" when there is none.
C2_TreeAfterHostDecides ==
    parsed.kind = "ok" =>
        LET g == position(TrimmedParts, HostMarker)
            t == TreeAfter(TrimmedParts, g)
        IN  /\ g # 0
            /\ parsed.owner = TrimmedParts[g + 1]
            /\ parsed.repo = TrimmedParts[g + 2]
            /\ IF t # 0
               THEN /\ t + 1 <= Len(TrimmedParts)
                    /\ parsed.branch = TrimmedParts[t + 1]
                    /\ parsed.path = join(SubSeq(TrimmedParts, t + 2, Len(TrimmedParts)))
               ELSE parsed.branch = DefaultBranch /\ parsed.path = <<>>

NumSlashes(s) == Cardinality({i \in 1..Len(s) : s[i] = Slash})

HasHostText(s) == \E i \in 1..Len(s) : s[i] = HostMarker[1]

\* C3: parse never aborts: it returns a RepoReference or a ParseError, and it returns a
\* ParseError whenever the trimmed input has fewer than 5 segments (fewer than 4
\* separators) or does not contain the host marker.
C3_ParseTotal ==
    parsed.kind # "none" =>
        /\ parsed.kind \in {"ok", "err"}
        /\ (NumSlashes(trim_end_matches(url)) < 4 \/ ~HasHostText(url)) => parsed.kind = "err"

\* C3 witness: a well-formed prefix whose last segment is "tree" was parsed and rejected
C3_Witness_TreeLast ==
    /\ parsed.kind = "err"
    /\ parsed.err = "Branch not found in URL"
    /\ TrimmedParts[Len(TrimmedParts)] = TreeMarker
    /\ Len(TrimmedParts) >= 5

-----------------------------------------------------------------------------
(* market.rs: storage, add_market, get_repositories *)

Str_https == <<"https:", Slash, Slash>> \o HostMarker \o <<Slash>>

MarketEntry(n, u) == [name |-> n, url |-> u]

\* FileMarketStorage::load: an absent file is the empty list
load == IF fileExists THEN markets ELSE <<>>

\* the built-in source
DefaultRepository ==
    [repo |-> <<"anthropics", Slash, "skills">>,
     path |-> <<"skills">>,
     base_url |-> Str_https \o <<"anthropics", Slash, "skills", Slash, "tree", Slash, "main">>,
     market_name |-> <<"anthropics", Slash, "skills">>]

extract_repo_name(u) ==
    LET p == parse(u) IN
    IF p.kind = "ok" THEN [kind |-> "ok", name |-> format_slash(p.owner, p.repo)]
    ELSE [kind |-> p.kind, name |-> <<>>]

\* mutant of url_exists: the duplicate check compares the display name with the url
url_exists_by_name(ms, u) == \E i \in 1..Len(ms) : ms[i].name = u

url_exists(ms, u) == \E i \in 1..Len(ms) : ms[i].url = u

\* mutant of pushed: the new entry is put in front
pushed_front(ms, n, u) == <<MarketEntry(n, u)>> \o ms

pushed(ms, n, u) == Append(ms, MarketEntry(n, u))

\* mutant of add_market: the entry is pushed without the check for an equal url
add_market_unchecked(ms, u) ==
    LET name == extract_repo_name(u) IN
    IF name.kind # "ok" THEN [outcome |-> "err", markets |-> ms, saved |-> FALSE]
    ELSE [outcome |-> "added", markets |-> pushed(ms, name.name, u), saved |-> TRUE]

\* the result of add_market(u) on the loaded list ms: outcome, list to persist, save called
add_market(ms, u) ==
    LET name == extract_repo_name(u) IN
    IF name.kind # "ok" THEN [outcome |-> "err", markets |-> ms, saved |-> FALSE]
    ELSE IF url_exists(ms, u) THEN [outcome |-> "already", markets |-> ms, saved |-> FALSE]
    ELSE [outcome |-> "added", markets |-> pushed(ms, name.name, u), saved |-> TRUE]

\* mutant of is_duplicate: the key of a listed repository leaves out its path
is_duplicate_repo_only(repositories, repo_key) ==
    \E i \in 1..Len(repositories) : repositories[i].repo = repo_key

is_duplicate(repositories, repo_key) ==
    \E i \in 1..Len(repositories) :
        format_slash(repositories[i].repo, repositories[i].path) = repo_key

\* one iteration of the loop over the loaded markets
visit_market(repositories, market, p) ==
    LET repo_path == format_slash(p.owner, p.repo)
        base_url == Str_https \o repo_path \o <<Slash>> \o TreeMarker \o <<Slash>> \o p.branch
        repo_key == format_slash(repo_path, p.path)
    IN  IF ~is_duplicate(repositories, repo_key)
        THEN Append(repositories,
                    [repo |-> repo_path, path |-> p.path, base_url |-> base_url,
                     market_name |-> market.name])
        ELSE repositories

\* mutant of repositories_loop: an entry whose url does not parse is skipped
RECURSIVE repositories_loop_skip(_, _)
repositories_loop_skip(repositories, ms) ==
    IF ms = <<>> THEN [kind |-> "ok", repos |-> repositories]
    ELSE LET p == parse(Head(ms).url) IN
         IF p.kind # "ok" THEN repositories_loop_skip(repositories, Tail(ms))
         ELSE repositories_loop_skip(visit_market(repositories, Head(ms), p), Tail(ms))

RECURSIVE repositories_loop(_, _)
repositories_loop(repositories, ms) ==
    IF ms = <<>> THEN [kind |-> "ok", repos |-> repositories]
    ELSE LET p == parse(Head(ms).url) IN
         IF p.kind # "ok" THEN [kind |-> "err", repos |-> <<>>]
         ELSE repositories_loop(visit_market(repositories, Head(ms), p), Tail(ms))

get_repositories(ms) == repositories_loop(<<DefaultRepository>>, ms)

-----------------------------------------------------------------------------
(* market.rs: DefaultGitHubApiClient; skill_finder.rs: SkillFinder; main.rs: search_skills *)

GitHubContent(n, t) == [name |-> n, item_type |-> t, path |-> format_slash(<<"s">>, n)]

\* what the remote does with one listing request: the request fails in transport, the
\* status is not a success, the body does not decode, or a listing arrives
RemoteOk(c) == [kind |-> "ok", contents |-> c]

RemoteFail(k) == [kind |-> k, contents |-> <<>>]

\* DefaultGitHubApiClient::get_directory_contents: every failure is an Err
get_directory_contents(raw) ==
    IF raw.kind = "ok" THEN [kind |-> "ok", contents |-> raw.contents]
    ELSE [kind |-> "err", contents |-> <<>>]

\* mutant of find_condition: the name is matched by containment
find_condition_contains(item, skill_name_lower) ==
    item.item_type = "dir" /\ contains(to_lowercase(item.name), skill_name_lower)

find_condition(item, skill_name_lower) ==
    item.item_type = "dir" /\ to_lowercase(item.name) = skill_name_lower

SkillMatch(item, r) ==
    [name |-> item.name, url |-> format_slash(r.base_url, item.path),
     market_name |-> r.market_name]

\* the inner loop of find_by_name over one listing
RECURSIVE find_items(_, _, _)
find_items(contents, r, skill_name_lower) ==
    IF contents = <<>> THEN <<>>
    ELSE (IF find_condition(Head(contents), skill_name_lower)
          THEN <<SkillMatch(Head(contents), r)>> ELSE <<>>)
         \o find_items(Tail(contents), r, skill_name_lower)

Acc(rs) == [outcome |-> "ok", repos |-> rs, queried |-> <<>>, results |-> <<>>]

Failed == [outcome |-> "err", repos |-> <<>>, queried |-> <<>>, results |-> <<>>]

\* mutant of find_visit: a listing error is propagated instead of skipped
find_visit_propagate(acc, r, raw, skill_name_lower) ==
    LET listed == get_directory_contents(raw)
        acc1 == [acc EXCEPT !.queried = Append(@, <<r.repo, r.path>>)]
    IN  IF listed.kind # "ok" THEN [acc1 EXCEPT !.outcome = "err", !.results = <<>>]
        ELSE [acc1 EXCEPT !.results = @ \o find_items(listed.contents, r, skill_name_lower)]

\* mutant of find_visit: the matches of a source are put in front of the earlier ones
find_visit_prepend(acc, r, raw, skill_name_lower) ==
    LET listed == get_directory_contents(raw)
        acc1 == [acc EXCEPT !.queried = Append(@, <<r.repo, r.path>>)]
    IN  IF listed.kind # "ok" THEN acc1
        ELSE [acc1 EXCEPT !.results = find_items(listed.contents, r, skill_name_lower) \o @]

\* one iteration of the loop of find_by_name over the repositories
find_visit(acc, r, raw, skill_name_lower) ==
    LET listed == get_directory_contents(raw)
        acc1 == [acc EXCEPT !.queried = Append(@, <<r.repo, r.path>>)]
    IN  IF listed.kind # "ok" THEN acc1
        ELSE [acc1 EXCEPT !.results = @ \o find_items(listed.contents, r, skill_name_lower)]

RECURSIVE find_loop(_, _, _, _)
find_loop(acc, resp, i, skill_name_lower) ==
    IF i > Len(acc.repos) \/ acc.outcome # "ok" THEN acc
    ELSE find_loop(find_visit(acc, acc.repos[i], resp[i], skill_name_lower),
                   resp, i + 1, skill_name_lower)

find_by_name(ms, skill_name, resp) ==
    LET repositories == get_repositories(ms) IN
    IF repositories.kind # "ok" THEN Failed
    ELSE IF repositories.repos = <<>> THEN Acc(<<>>)
    ELSE find_loop(Acc(repositories.repos), resp, 1, to_lowercase(skill_name))

search_condition(item, query_lower) ==
    item.item_type = "dir" /\ contains(to_lowercase(item.name), query_lower)

Found(item, r) == [item |-> item, base_url |-> r.base_url, market_name |-> r.market_name]

RECURSIVE search_items(_, _, _)
search_items(contents, r, query_lower) ==
    IF contents = <<>> THEN <<>>
    ELSE (IF search_condition(Head(contents), query_lower)
          THEN <<Found(Head(contents), r)>> ELSE <<>>)
         \o search_items(Tail(contents), r, query_lower)

\* one iteration of the loop of SkillFinder::search
search_visit(acc, r, raw, query_lower) ==
    LET listed == get_directory_contents(raw)
        acc1 == [acc EXCEPT !.queried = Append(@, <<r.repo, r.path>>)]
    IN  IF listed.kind # "ok" THEN acc1
        ELSE [acc1 EXCEPT !.results = @ \o search_items(listed.contents, r, query_lower)]

RECURSIVE search_loop(_, _, _, _)
search_loop(acc, resp, i, query_lower) ==
    IF i > Len(acc.repos) \/ acc.outcome # "ok" THEN acc
    ELSE search_loop(search_visit(acc, acc.repos[i], resp[i], query_lower),
                     resp, i + 1, query_lower)

\* SkillFinder::search; results are what display_search_results is given
search(ms, query, resp) ==
    LET repositories == get_repositories(ms) IN
    IF repositories.kind # "ok" THEN Failed
    ELSE search_loop(Acc(repositories.repos), resp, 1, to_lowercase(query))

\* one iteration of the loop of search_skills (main.rs): a request that fails in
\* transport returns the error; a bad status or an undecodable body is warned and skipped
search_skills_visit(acc, r, raw, query_lower) ==
    LET acc1 == [acc EXCEPT !.queried = Append(@, <<r.repo, r.path>>)] IN
    IF raw.kind = "transport" THEN [acc1 EXCEPT !.outcome = "err", !.results = <<>>]
    ELSE IF raw.kind = "http" THEN acc1
    ELSE IF raw.kind = "decode" THEN acc1
    ELSE [acc1 EXCEPT !.results = @ \o search_items(raw.contents, r, query_lower)]

RECURSIVE search_skills_loop(_, _, _, _)
search_skills_loop(acc, resp, i, query_lower) ==
    IF i > Len(acc.repos) \/ acc.outcome # "ok" THEN acc
    ELSE search_skills_loop(search_skills_visit(acc, acc.repos[i], resp[i], query_lower),
                            resp, i + 1, query_lower)

\* search_skills of main.rs; results are what it prints
search_skills(ms, query, resp) ==
    LET repositories == get_repositories(ms) IN
    IF repositories.kind # "ok" THEN Failed
    ELSE search_skills_loop(Acc(repositories.repos), resp, 1, to_lowercase(query))

-----------------------------------------------------------------------------
(* The persisted lists and urls the model draws from *)

U_cd == Str_https \o <<"c", Slash, "d">>

U_ab_dev == Str_https \o <<"a", Slash, "b", Slash, "tree", Slash, "dev", Slash, "s">>

U_ab_main == Str_https \o <<"a", Slash, "b", Slash, "tree", Slash, "main", Slash, "s">>

U_builtin == Str_https \o <<"anthropics", Slash, "skills", Slash, "tree", Slash, "main", Slash, "skills">>

U_bad == <<"a", Slash, "b">>

MarketUrls == {U_cd, U_ab_dev, U_ab_main, U_builtin, U_bad}

\* an entry as add_market writes it, or a hand-written one for a url it would reject
FileEntry(u) ==
    LET n == extract_repo_name(u) IN
    MarketEntry(IF n.kind = "ok" THEN n.name ELSE <<"x">>, u)

FileLists == UNION {[1..n -> {FileEntry(u) : u \in MarketUrls}] : n \in 0..MaxMarkets}

Init ==
    /\ url = <<>>
    /\ parsed = NotCalled
    /\ fileExists \in BOOLEAN
    /\ markets \in (IF fileExists THEN FileLists ELSE {<<>>})
    /\ call = Idle
    /\ inst = NoInstall
    /\ dl = NoDownload
    /\ fs = {}
    /\ procs = NoProcs

\* `skills market add <url>`
AddMarket(u) ==
    /\ call.op = "idle"
    /\ LET r == add_market(load, u) IN
       /\ r.saved => Len(load) < MaxMarkets
       /\ markets' = (IF r.saved THEN r.markets ELSE markets)
       /\ fileExists' = (fileExists \/ r.saved)
       /\ call' = [Idle EXCEPT !.op = "add_market", !.arg = u, !.outcome = r.outcome,
                               !.saved = r.saved, !.before = load]
    /\ UNCHANGED <<url, parsed, inst, dl, fs, procs>>

ListRepositories ==
    /\ call.op = "idle"
    /\ LET r == get_repositories(load) IN
       call' = [Idle EXCEPT !.op = "get_repositories", !.outcome = r.kind, !.repos = r.repos]
    /\ UNCHANGED <<url, parsed, fileExists, markets, inst, dl, fs, procs>>

\* the command returns
Return ==
    /\ call.op # "idle"
    /\ call' = Idle
    /\ UNCHANGED <<url, parsed, fileExists, markets, inst, dl, fs, procs>>

-----------------------------------------------------------------------------
(* Remote listings and queries the model draws from *)

Listing1 == <<GitHubContent(<<"a">>, "dir")>>

Listing2 ==
    <<GitHubContent(<<"A">>, "file"), GitHubContent(<<"A", "B">>, "dir"),
      GitHubContent(<<"A">>, "dir")>>

RemoteResponses ==
    {RemoteFail("transport"), RemoteFail("http"), RemoteFail("decode"),
     RemoteOk(Listing1), RemoteOk(Listing2)}

Queries == {<<"A">>, <<"a", "b">>}

\* one remote response per repository the registry yields for the loaded list
ResponseSeqs ==
    LET r == get_repositories(load) IN
    [1..(IF r.kind = "ok" THEN Len(r.repos) ELSE 0) -> RemoteResponses]

Finished(name, arg, resp, r) ==
    [Idle EXCEPT !.op = name, !.arg = arg, !.outcome = r.outcome, !.repos = r.repos,
                 !.responses = resp, !.queried = r.queried, !.results = r.results]

FindByName(skill_name, resp) ==
    /\ call.op = "idle"
    /\ call' = Finished("find_by_name", skill_name, resp, find_by_name(load, skill_name, resp))
    /\ UNCHANGED <<url, parsed, fileExists, markets, inst, dl, fs, procs>>

Search(query, resp) ==
    /\ call.op = "idle"
    /\ call' = Finished("search", query, resp, search(load, query, resp))
    /\ UNCHANGED <<url, parsed, fileExists, markets, inst, dl, fs, procs>>

SearchSkills(query, resp) ==
    /\ call.op = "idle"
    /\ call' = Finished("search_skills", query, resp, search_skills(load, query, resp))
    /\ UNCHANGED <<url, parsed, fileExists, markets, inst, dl, fs, procs>>

Next ==
    \/ \E u \in MarketUrls : AddMarket(u)
    \/ ListRepositories
    \/ \E q \in Queries, resp \in ResponseSeqs : FindByName(q, resp)
    \/ \E q \in Queries, resp \in ResponseSeqs : Search(q, resp)
    \/ \E q \in Queries, resp \in ResponseSeqs : SearchSkills(q, resp)
    \/ Return

Spec == Init /\ [][Next]_vars

-----------------------------------------------------------------------------
(* Claims about the market registry and the skill finder, checked under Spec *)

RepoKey(r) == r.repo \o <<Slash>> \o r.path

\* the de-duplication key of a persisted entry whose url parses
EntryKey(m) ==
    LET p == parse(m.url) IN p.owner \o <<Slash>> \o p.repo \o <<Slash>> \o p.path

\* every persisted url parses
RegistryOk == \A i \in 1..Len(load) : parse(load[i].url).kind = "ok"

\* the persisted entries that are the first with their key, the built-in key excluded
KeptEntries ==
    {i \in 1..Len(load) :
        /\ EntryKey(load[i]) # RepoKey(DefaultRepository)
        /\ \A j \in 1..(i - 1) : EntryKey(load[j]) # EntryKey(load[i])}

NoDupUrls(ms) == \A i, j \in 1..Len(ms) : i < j => ms[i].url # ms[j].url

UrlCount(ms, u) == Cardinality({i \in 1..Len(ms) : ms[i].url = u})

\* C5: once the persisted list has no two entries with the same url, no step gives it
\* two; after an add_market that succeeds the list holds exactly one entry for its url.
C5_AddKeepsUrlsUnique ==
    [][NoDupUrls(load) =>
          /\ NoDupUrls(load')
          /\ (call'.op = "add_market" /\ call'.outcome # "err")
                => UrlCount(load', call'.arg) = 1]_vars

\* C5 witness: a url already in a duplicate-free list was added again
C5_Witness_AddedTwice ==
    /\ call.op = "add_market"
    /\ call.outcome = "already"
    /\ NoDupUrls(call.before)
    /\ UrlCount(load, call.arg) = 1

AddUnchanged == load = call.before /\ ~call.saved

AddAppended ==
    LET p == parse(call.arg) IN
    /\ call.saved
    /\ call.outcome = "added"
    /\ load = call.before \o
               <<[name |-> p.owner \o <<Slash>> \o p.repo, url |-> call.arg]>>

UrlPersistedBefore == \E i \in 1..Len(call.before) : call.before[i].url = call.arg

\* C6 as claimed: the list is unchanged and save is not called when the url is already
\* persisted (outcome AlreadyPresent, a success) or when it fails to parse (outcome
\* error); otherwise the previous list with one entry {owner/repo, url} appended is saved.
C6_AddFrame_AsClaimed ==
    call.op = "add_market" =>
        /\ UrlPersistedBefore => (AddUnchanged /\ call.outcome = "already")
        /\ parse(call.arg).kind # "ok" => (AddUnchanged /\ call.outcome = "err")
        /\ (~UrlPersistedBefore /\ parse(call.arg).kind = "ok") => AddAppended

\* C6 amended: the list is unchanged and save is not called when the url fails to parse
\* (outcome error, also when that url is already persisted) or when it parses and is
\* already persisted (outcome AlreadyPresent, a success); otherwise the previous list
\* with one entry {owner/repo, url} appended at the end is saved.
C6_AddFrame ==
    call.op = "add_market" =>
        /\ (UrlPersistedBefore /\ parse(call.arg).kind = "ok")
              => (AddUnchanged /\ call.outcome = "already")
        /\ parse(call.arg).kind # "ok" => (AddUnchanged /\ call.outcome = "err")
        /\ (~UrlPersistedBefore /\ parse(call.arg).kind = "ok") => AddAppended

\* C6 witness: an entry was appended to a non-empty list
C6_Witness_Appended ==
    /\ call.op = "add_market"
    /\ call.outcome = "added"
    /\ Len(call.before) >= 1

EqualsIgnoreCase(a, b) ==
    /\ Len(a) = Len(b)
    /\ \A k \in 1..Len(a) : to_lowercase_char(a[k]) = to_lowercase_char(b[k])

ContainsIgnoreCase(a, b) ==
    \E off \in 0..(Len(a) - Len(b)) :
        \A k \in 1..Len(b) : to_lowercase_char(a[off + k]) = to_lowercase_char(b[k])

Listed(i) == call.responses[i].kind = "ok"

\* source index and entry index of every directory whose name equals the argument
MatchPairs ==
    {p \in UNION {{<<i, j>> : j \in 1..Len(call.responses[i].contents)} :
                    i \in {x \in 1..Len(call.repos) : Listed(x)}} :
        LET e == call.responses[p[1]].contents[p[2]] IN
        e.item_type = "dir" /\ EqualsIgnoreCase(e.name, call.arg)}

MatchAt(p) ==
    LET e == call.responses[p[1]].contents[p[2]] IN
    [name |-> e.name,
     url |-> call.repos[p[1]].base_url \o <<Slash>> \o e.path,
     market_name |-> call.repos[p[1]].market_name]

ResultSet == {call.results[k] : k \in 1..Len(call.results)}

\* C7: find_by_name returns a match for a listing entry iff the entry is a directory
\* whose name equals the requested name ignoring case; each match carries the entry's
\* name, base url + "/" + entry path, and the source name of its view.
C7_FindExactIgnoringCase ==
    (call.op = "find_by_name" /\ call.outcome = "ok") =>
        ResultSet = {MatchAt(p) : p \in MatchPairs}

\* C7 witness: "A" was requested; a listing holds a file "A" and a directory "AB",
\* and the directory "a" of another listing was matched
C7_Witness_CaseAndKind ==
    /\ call.op = "find_by_name"
    /\ call.arg = <<"A">>
    /\ \E i \in 1..Len(call.responses) :
          /\ Listed(i)
          /\ \E j \in 1..Len(call.responses[i].contents) :
                call.responses[i].contents[j].name = <<"A", "B">>
    /\ \E k \in 1..Len(call.results) : call.results[k].name = <<"a">>

\* what a search is to report: the directories containing the query, ignoring case
FoundSet ==
    {[item |-> call.responses[p[1]].contents[p[2]],
      base_url |-> call.repos[p[1]].base_url,
      market_name |-> call.repos[p[1]].market_name] :
        p \in {q \in UNION {{<<i, j>> : j \in 1..Len(call.responses[i].contents)} :
                              i \in {x \in 1..Len(call.responses) : Listed(x)}} :
                 LET e == call.responses[q[1]].contents[q[2]] IN
                 e.item_type = "dir" /\ ContainsIgnoreCase(e.name, call.arg)}}

\* C8: a search (SkillFinder::search and search_skills of main.rs) reports exactly the
\* directories, over the sources whose listing succeeded, whose name contains the
\* query ignoring case, and completes successfully whichever listings fail.
C8_SearchReportsContaining ==
    (call.op \in {"search", "search_skills"} /\ RegistryOk) =>
        /\ call.outcome = "ok"
        /\ Len(call.repos) = Len(call.responses)
        /\ ResultSet = FoundSet

\* C9: in find_by_name a listing error of any subset of the sources never fails the
\* call: it succeeds, every source is queried, in order, and the matches are those of
\* the sources whose listing succeeded (none when all fail).
C9_FindToleratesListingErrors ==
    (call.op = "find_by_name" /\ RegistryOk) =>
        /\ call.outcome = "ok"
        /\ Len(call.repos) = Len(call.responses)
        /\ call.queried = [i \in 1..Len(call.repos) |-> <<call.repos[i].repo, call.repos[i].path>>]
        /\ Len(call.results) = Cardinality(MatchPairs)
        /\ \A k \in 1..Len(call.results) : \E p \in MatchPairs : call.results[k] = MatchAt(p)
        /\ (\A i \in 1..Len(call.repos) : ~Listed(i)) => call.results = <<>>

\* C9 witness: a source failed, a later source was listed and gave a match
C9_Witness_FailThenMatch ==
    /\ call.op = "find_by_name"
    /\ call.outcome = "ok"
    /\ \E i, j \in 1..Len(call.responses) : i < j /\ ~Listed(i) /\ Listed(j)
    /\ call.results # <<>>

PairBefore(p, q) == p[1] < q[1] \/ (p[1] = q[1] /\ p[2] < q[2])

\* the first persisted entry with the key of a view
EntryOf(v) ==
    CHOOSE i \in 1..Len(load) :
        /\ EntryKey(load[i]) = RepoKey(v)
        /\ \A j \in 1..(i - 1) : EntryKey(load[j]) # RepoKey(v)

SourcesWithMatch == {p[1] : p \in MatchPairs}

C11_MalformedMarketIsHardError ==
    (call.op \in {"get_repositories", "find_by_name", "search"} /\ ~RegistryOk) =>
        /\ call.outcome = "err"
        /\ call.repos = <<>>
        /\ call.queried = <<>>
        /\ call.results = <<>>

\* C11 witness: find_by_name failed on a list whose first entry is well-formed and
\* whose second is not
C11_Witness_BadAfterGood ==
    /\ call.op = "find_by_name"
    /\ call.outcome = "err"
    /\ Len(load) = 2
    /\ parse(load[1].url).kind = "ok"
    /\ parse(load[2].url).kind # "ok"

-----------------------------------------------------------------------------
(* Paths: a path is a sequence of components, each a separator-free string *)

\* Path::components: empty components (repeated separators) are dropped
path_components(s) == SelectSeq(split(s), LAMBDA c : c # <<>>)

is_absolute(s) == s # <<>> /\ s[1] = Slash

\* PathBuf::join: an absolute argument replaces the path it is joined to
path_join(base, s) ==
    IF is_absolute(s) THEN path_components(s) ELSE base \o path_components(s)

\* dirs::home_dir() and std::env::current_dir(), both taken to be available
HomeDir == <<<<"home">>, <<"u">>>>

CurrentDir == <<<<"work">>>>

-----------------------------------------------------------------------------
(* main.rs: TargetType; installer.rs and main.rs: get_target_directory;
   github.rs: extract_skill_name *)

TargetTypes == {"Codex", "Copilot"}

as_str(target) == IF target = "Codex" THEN <<"codex">> ELSE <<"copilot">>

base_dir(global) == IF global THEN HomeDir ELSE CurrentDir

folder_name(target) ==
    IF as_str(target) = <<"copilot">> THEN <<".github">> ELSE <<".">> \o as_str(target)

\* get_target_directory of installer.rs
get_target_directory(target, global) ==
    path_join(path_join(base_dir(global), folder_name(target)), <<"skills">>)

\* get_target_directory of main.rs
main_get_target_directory(target, global) ==
    path_join(path_join(base_dir(global), <<".">> \o as_str(target)), <<"skills">>)

\* split('/').last() is Some for every string, so the error is never returned
extract_skill_name(path) ==
    LET parts == split(trim_end_matches(path)) IN
    IF parts = <<>> THEN [kind |-> "err", name |-> <<>>]
    ELSE [kind |-> "ok", name |-> parts[Len(parts)]]

\* the destination download_folder creates
dest_path(target_dir, skill_name) == path_join(target_dir, skill_name)

-----------------------------------------------------------------------------
(* skill_finder.rs: ConsoleUserInteraction; installer.rs: SkillInstaller *)

\* the largest number the user types at the prompt
MaxChoice == 3

\* a line typed at the prompt: not a number, or a number
NotANumber == [num |-> FALSE, n |-> 0]

Typed(k) == [num |-> TRUE, n |-> k]

SelectInputs == {NotANumber} \cup {Typed(k) : k \in 0..MaxChoice}

Selected(m) == [kind |-> "ok", match |-> <<m>>, ui_calls |-> 1]

SelectionError == [kind |-> "err", match |-> <<>>, ui_calls |-> 1]

\* ConsoleUserInteraction::select_skill
ui_select_skill(matches, input) ==
    IF ~input.num THEN SelectionError
    ELSE IF input.n < 1 \/ input.n > Len(matches) THEN SelectionError
    ELSE Selected(matches[input.n])

\* mutant of select_skill: the user is asked also when there is one match
select_skill_always_asks(matches, input) == ui_select_skill(matches, input)

\* SkillInstaller::select_skill
select_skill(matches, input) ==
    IF Len(matches) = 1 THEN [kind |-> "ok", match |-> <<matches[1]>>, ui_calls |-> 0]
    ELSE ui_select_skill(matches, input)

Download(repo, target_dir, skill_name) ==
    [repo |-> repo, target_dir |-> target_dir, skill_name |-> skill_name,
     dest |-> dest_path(target_dir, skill_name)]

Installing(name, arg, target, global) ==
    [NoInstall EXCEPT !.op = name, !.arg = arg, !.target = target, !.global = global]

\* the call of the downloader and what it returns: downloaded is its result
invoke_downloader(rec, repo, target_dir, skill_name, downloaded) ==
    [rec EXCEPT !.downloads = Append(@, Download(repo, target_dir, skill_name)),
                !.outcome = IF downloaded THEN "ok" ELSE "err_download"]

\* SkillInstaller::install_from_url
install_from_url(u, target, global, downloaded) ==
    LET rec == Installing("install_from_url", u, target, global)
        repo == parse(u)
    IN  IF repo.kind # "ok" THEN [rec EXCEPT !.outcome = "err_parse"]
        ELSE LET skill_name == extract_skill_name(repo.path) IN
             IF skill_name.kind # "ok" THEN [rec EXCEPT !.outcome = "err_name"]
             ELSE invoke_downloader(rec, repo, get_target_directory(target, global),
                                    skill_name.name, downloaded)

\* lines 60-81 of install_from_market: the matches are known
install_selected(rec0, matches, input, target_dir, downloaded) ==
    LET rec == [rec0 EXCEPT !.matches = matches, !.input = input] IN
    IF matches = <<>> THEN [rec EXCEPT !.outcome = "not_found"]
    ELSE LET selected == select_skill(matches, input)
             rec1 == [rec EXCEPT !.select_calls = selected.ui_calls,
                                 !.selected = selected.match]
         IN  IF selected.kind # "ok" THEN [rec1 EXCEPT !.outcome = "err_select"]
             ELSE LET repo == parse(selected.match[1].url) IN
                  IF repo.kind # "ok" THEN [rec1 EXCEPT !.outcome = "err_parse"]
                  ELSE invoke_downloader(rec1, repo, target_dir,
                                         selected.match[1].name, downloaded)

\* SkillInstaller::install_from_market
install_from_market(ms, skill_name, resp, input, target, global, downloaded) ==
    LET rec == Installing("install_from_market", skill_name, target, global)
        found == find_by_name(ms, skill_name, resp)
    IN  IF found.outcome # "ok" THEN [rec EXCEPT !.outcome = "err_find"]
        ELSE install_selected([rec EXCEPT !.repos = found.repos, !.responses = resp],
                              found.results, input,
                              get_target_directory(target, global), downloaded)

starts_with_http(s) == s # <<>> /\ s[1] \in {"http:", "https:"}

\* the Install command of main.rs; its find_skills_by_name and select_skill take the
\* steps of find_by_name and of the two select_skill above
main_install(ms, skill_or_url, resp, input, target, global, downloaded) ==
    LET rec == Installing("main_install", skill_or_url, target, global) IN
    IF starts_with_http(skill_or_url)
    THEN LET repo == parse(skill_or_url) IN
         IF repo.kind # "ok" THEN [rec EXCEPT !.outcome = "err_parse"]
         ELSE LET skill_name == extract_skill_name(repo.path) IN
              IF skill_name.kind # "ok" THEN [rec EXCEPT !.outcome = "err_name"]
              ELSE invoke_downloader(rec, repo, main_get_target_directory(target, global),
                                     skill_name.name, downloaded)
    ELSE LET found == find_by_name(ms, skill_or_url, resp) IN
         IF found.outcome # "ok" THEN [rec EXCEPT !.outcome = "err_find"]
         ELSE install_selected([rec EXCEPT !.repos = found.repos, !.responses = resp],
                               found.results, input,
                               main_get_target_directory(target, global), downloaded)

-----------------------------------------------------------------------------
(* The install commands and their inputs *)

IU_hammer ==
    Str_https \o <<"acme", Slash, "widgets", Slash, "tree", Slash, "main", Slash,
                   "tools", Slash, "hammer">>

IU_no_tree == Str_https \o <<"a", Slash, "b">>

IU_branch_only == Str_https \o <<"a", Slash, "b", Slash, "tree", Slash, "main">>

IU_trailing == Str_https \o <<"a", Slash, "b", Slash, "tree", Slash, "main", Slash, "s", Slash>>

IU_rooted == Str_https \o <<"a", Slash, "b", Slash, "tree", Slash, "main", Slash, Slash, "etc">>

IU_bad == <<"https:", Slash, Slash, "x">>

InstallUrls == {IU_hammer, IU_no_tree, IU_branch_only, IU_trailing, IU_rooted, IU_bad}

\* a market whose repository is named "tree"
U_tree ==
    Str_https \o <<"o", Slash, "tree", Slash, "tree", Slash, "main", Slash, "s">>

InstallLists ==
    {<<>>, <<FileEntry(U_cd)>>, <<FileEntry(U_tree)>>, <<FileEntry(U_ab_dev), FileEntry(U_cd)>>,
     <<FileEntry(U_bad)>>}

InstallResponses == {RemoteFail("http"), RemoteOk(Listing1), RemoteOk(Listing2)}

InstallResponseSeqs ==
    LET r == get_repositories(load) IN
    [1..(IF r.kind = "ok" THEN Len(r.repos) ELSE 0) -> InstallResponses]

InitInstall ==
    /\ url = <<>>
    /\ parsed = NotCalled
    /\ fileExists = TRUE
    /\ markets \in InstallLists
    /\ call = Idle
    /\ inst = NoInstall
    /\ dl = NoDownload
    /\ fs = {}
    /\ procs = NoProcs

InstallFromUrl(u, target, global, downloaded) ==
    /\ inst.op = "idle"
    /\ inst' = install_from_url(u, target, global, downloaded)
    /\ UNCHANGED <<url, parsed, fileExists, markets, call, dl, fs, procs>>

InstallFromMarket(skill_name, resp, input, target, global, downloaded) ==
    /\ inst.op = "idle"
    /\ inst' = install_from_market(load, skill_name, resp, input, target, global, downloaded)
    /\ UNCHANGED <<url, parsed, fileExists, markets, call, dl, fs, procs>>

MainInstall(skill_or_url, resp, input, target, global, downloaded) ==
    /\ inst.op = "idle"
    /\ inst' = main_install(load, skill_or_url, resp, input, target, global, downloaded)
    /\ UNCHANGED <<url, parsed, fileExists, markets, call, dl, fs, procs>>

InstallReturn ==
    /\ inst.op # "idle"
    /\ inst' = NoInstall
    /\ UNCHANGED <<url, parsed, fileExists, markets, call, dl, fs, procs>>

NextInstall ==
    \/ \E u \in InstallUrls, t \in TargetTypes, g \in BOOLEAN, d \in BOOLEAN :
          InstallFromUrl(u, t, g, d)
    \/ \E q \in Queries, resp \in InstallResponseSeqs, i \in SelectInputs,
          t \in TargetTypes, g \in BOOLEAN, d \in BOOLEAN :
          InstallFromMarket(q, resp, i, t, g, d)
    \/ \E a \in InstallUrls \cup Queries, resp \in InstallResponseSeqs, i \in SelectInputs,
          t \in TargetTypes, g \in BOOLEAN, d \in BOOLEAN :
          MainInstall(a, resp, i, t, g, d)
    \/ InstallReturn

SpecInstall == InitInstall /\ [][NextInstall]_vars

-----------------------------------------------------------------------------
(* Claims about the install commands, under SpecInstall *)

InstalledFromMarket == inst.op = "install_from_market" /\ inst.outcome # "err_find"

\* the one call of the downloader for the match m
DownloadsOnly(m) ==
    /\ Len(inst.downloads) = 1
    /\ inst.downloads[1].skill_name = m.name
    /\ inst.downloads[1].repo = parse(m.url)

ValidChoice == inst.input.num /\ inst.input.n \in 1..Len(inst.matches)

\* C12: install_from_market, once the lookup has returned its matches: with no match it
\* fails with not-found and never calls the downloader; with one match the user is not
\* asked and the downloader is called once, for that match, under the name of the match;
\* with several matches the user is asked exactly once, and the downloader is called once
\* for the match the user chose, or not at all when the selection returns an error.
C12_InstallFromMarketSelection ==
    InstalledFromMarket =>
        /\ Len(inst.matches) = 0 =>
              /\ inst.outcome = "not_found"
              /\ inst.select_calls = 0
              /\ inst.downloads = <<>>
        /\ Len(inst.matches) = 1 =>
              /\ inst.select_calls = 0
              /\ DownloadsOnly(inst.matches[1])
        /\ Len(inst.matches) >= 2 =>
              /\ inst.select_calls = 1
              /\ IF ValidChoice
                 THEN /\ inst.selected = <<inst.matches[inst.input.n]>>
                      /\ DownloadsOnly(inst.matches[inst.input.n])
                 ELSE /\ inst.selected = <<>>
                      /\ inst.outcome = "err_select"
                      /\ inst.downloads = <<>>

\* one match installed while the user's line was not a number: the user was not asked
C12_Witness_OneMatchNoPrompt ==
    /\ inst.op = "install_from_market"
    /\ Len(inst.matches) = 1
    /\ ~inst.input.num
    /\ inst.outcome = "ok"
    /\ Len(inst.downloads) = 1

InstalledFromUrl ==
    \/ inst.op = "install_from_url"
    \/ inst.op = "main_install" /\ starts_with_http(inst.arg)

\* the '/'-separated components of the subpath parsed from the argument
SubpathParts == split(parse(inst.arg).path)

\* C13: an install from a url that parses takes the final '/'-separated component of the
\* subpath as the install name; when the subpath is empty or has no final component it
\* fails with the empty-name error and the downloader is not called.
C13_EmptyNameIsError ==
    (InstalledFromUrl /\ parse(inst.arg).kind = "ok") =>
        IF SubpathParts[Len(SubpathParts)] = <<>>
        THEN /\ inst.outcome = "err_name"
             /\ inst.downloads = <<>>
        ELSE /\ Len(inst.downloads) = 1
             /\ inst.downloads[1].skill_name = SubpathParts[Len(SubpathParts)]

ClaimedFolder == IF inst.target = "Copilot" THEN <<".github">> ELSE <<".", "codex">>

ClaimedRoot ==
    (IF inst.global THEN HomeDir ELSE CurrentDir) \o <<ClaimedFolder, <<"skills">>>>

\* C16: whenever a skill is installed, for either target kind and either value of the
\* global flag, the destination root is <base>/<folder>/skills, with base the home
\* directory when global is set and the current directory otherwise, and folder ".github"
\* for copilot and "." with the lowercase kind otherwise; the skill goes to
\* <destination root>/<install name>.
C16_DestinationLayout ==
    Len(inst.downloads) = 1 =>
        /\ inst.downloads[1].target_dir = ClaimedRoot
        /\ inst.downloads[1].dest =
              ClaimedRoot \o (IF inst.downloads[1].skill_name = <<>> THEN <<>>
                              ELSE <<inst.downloads[1].skill_name>>)

\* the listing entries of source i that find_by_name turns into matches
MatchedEntries(i) ==
    IF inst.responses[i].kind # "ok" THEN {}
    ELSE {inst.responses[i].contents[j] : j \in
             {k \in 1..Len(inst.responses[i].contents) :
                 LET e == inst.responses[i].contents[k] IN
                 e.item_type = "dir" /\ EqualsIgnoreCase(e.name, inst.arg)}}

BrowseBase(r) ==
    Str_https \o r.owner \o <<Slash>> \o r.repo \o <<Slash, "tree", Slash>> \o r.branch

\* C17: for every match find_by_name made from a registry view and a listing entry with
\* path p, parsing the url of the match succeeds and gives the owner, repository and
\* branch of the view and the subpath p; the downloader is called with exactly that.
C17_MatchUrlReparses ==
    InstalledFromMarket =>
        \A i \in 1..Len(inst.repos) : \A e \in MatchedEntries(i) :
            LET view == inst.repos[i]
                murl == view.base_url \o <<Slash>> \o e.path
                r == parse(murl)
            IN  /\ \E k \in 1..Len(inst.matches) : inst.matches[k].url = murl
                /\ r.kind = "ok"
                /\ r.owner \o <<Slash>> \o r.repo = view.repo
                /\ BrowseBase(r) = view.base_url
                /\ r.path = e.path
                /\ (Len(inst.downloads) = 1 /\ inst.selected[1].url = murl) =>
                       inst.downloads[1].repo = r

-----------------------------------------------------------------------------
(* The file system: the set of the paths that exist, each with what it holds *)

Entry(p, d) == [path |-> p, data |-> d]

is_prefix(a, b) == Len(a) <= Len(b) /\ SubSeq(b, 1, Len(a)) = a

exists(f, p) == \E e \in f : e.path = p

\* the entries at p and below it
under(f, p) == {e \in f : is_prefix(p, e.path)}

\* fs::create_dir_all: p and the ancestors of p that are missing
create_dir_all(f, p) ==
    f \cup {Entry(SubSeq(p, 1, k), "dir") : k \in {n \in 1..Len(p) : ~exists(f, SubSeq(p, 1, n))}}

\* fs::write
write_file(f, p, d) == {e \in f : e.path # p} \cup {Entry(p, d)}

remove_dir_all(f, p) == {e \in f : ~is_prefix(p, e.path)}

\* the entries some of the archive's entries become below dir
placed(dir, entries) == {Entry(dir \o a.path, a.data) : a \in entries}

\* ZipArchive::extract of the given entries
extract(f, dir, entries) ==
    {e \in f : ~exists(placed(dir, entries), e.path)} \cup placed(dir, entries)

strip_prefix(src, p) == SubSeq(p, Len(src) + 1, Len(p))

\* WalkDir::new(src).min_depth(1)
walk(f, src) == {e \in f : is_prefix(src, e.path) /\ e.path # src}

\* copy_dir_all, for the entries of the walk it gets to
copy_dir_all(f, src, dst, entries) ==
    LET copied == {Entry(dst \o strip_prefix(src, e.path), e.data) : e \in entries}
        f1 == create_dir_all(f, dst)
    IN  {e \in f1 : ~exists(copied, e.path)} \cup copied

-----------------------------------------------------------------------------
(* github.rs: DefaultGitHubDownloader::download_folder, step by step *)

\* the directory TempDir::new creates
TempPath == <<<<"tmp">>, <<"t1">>>>

\* format!("{}-{}", repo.repo, repo.branch)
archive_root(repo) == repo.repo \o <<"-">> \o repo.branch

source_path(extract_dir, repo) ==
    IF repo.path = <<>> THEN path_join(extract_dir, archive_root(repo))
    ELSE path_join(path_join(extract_dir, archive_root(repo)), repo.path)

\* mutant of drop_temp_dir: the temporary directory is left behind
leak_temp_dir(f, d) == f

\* Drop of TempDir, at every return after its creation
drop_temp_dir(f, d) == IF d.temp_dir = <<>> THEN f ELSE remove_dir_all(f, d.temp_dir)

\* a return of download_folder, with the file system f it leaves
returns(d, f, outcome, at) ==
    [dl |-> [d EXCEPT !.pc = "returned", !.outcome = outcome, !.failed_at = at],
     fs |-> drop_temp_dir(f, d)]

Goes(r) == dl' = r.dl /\ fs' = r.fs

DlFrame == UNCHANGED <<url, parsed, fileExists, markets, call, inst, procs>>

DownloadFolder(repo, target_dir, skill_name) ==
    /\ dl.pc = "idle"
    /\ dl' = [NoDownload EXCEPT !.pc = "get", !.repo = repo, !.target_dir = target_dir,
                                !.skill_name = skill_name, !.fs0 = fs]
    /\ UNCHANGED fs
    /\ DlFrame

\* reqwest::blocking::get and the status check
GetArchive(reply) ==
    /\ dl.pc = "get"
    /\ IF reply.kind # "ok" THEN Goes(returns(dl, fs, "err", "get"))
       ELSE /\ dl' = [dl EXCEPT !.pc = "tempdir", !.archive = reply.body]
            /\ UNCHANGED fs
    /\ DlFrame

CreateTempDir(ok) ==
    /\ dl.pc = "tempdir"
    /\ IF ~ok THEN Goes(returns(dl, fs, "err", "tempdir"))
       ELSE /\ dl' = [dl EXCEPT !.pc = "write", !.temp_dir = TempPath]
            /\ fs' = create_dir_all(fs, TempPath)
    /\ DlFrame

\* response.bytes() and write_file
WriteZip(ok) ==
    /\ dl.pc = "write"
    /\ IF ~ok THEN Goes(returns(dl, fs, "err", "write"))
       ELSE /\ dl' = [dl EXCEPT !.pc = "open"]
            /\ fs' = write_file(fs, path_join(dl.temp_dir, <<"repo.zip">>), "zip")
    /\ DlFrame

\* File::open and ZipArchive::new
OpenZip(ok) ==
    /\ dl.pc = "open"
    /\ IF ~ok THEN Goes(returns(dl, fs, "err", "open"))
       ELSE dl' = [dl EXCEPT !.pc = "mkdir"] /\ UNCHANGED fs
    /\ DlFrame

CreateExtractDir(ok) ==
    /\ dl.pc = "mkdir"
    /\ IF ~ok THEN Goes(returns(dl, fs, "err", "mkdir"))
       ELSE /\ dl' = [dl EXCEPT !.pc = "extract",
                                !.extract_dir = path_join(dl.temp_dir, <<"extracted">>)]
            /\ fs' = create_dir_all(fs, path_join(dl.temp_dir, <<"extracted">>))
    /\ DlFrame

\* archive.extract: all the entries, or a failure after some of them
Extract(ok, part) ==
    /\ dl.pc = "extract"
    /\ ok => part = dl.archive
    /\ IF ~ok
       THEN Goes(returns([dl EXCEPT !.extracted = part],
                         extract(fs, dl.extract_dir, part), "err", "extract"))
       ELSE /\ dl' = [dl EXCEPT !.pc = "check", !.extracted = part]
            /\ fs' = extract(fs, dl.extract_dir, part)
    /\ DlFrame

CheckSource ==
    /\ dl.pc = "check"
    /\ LET d == [dl EXCEPT !.source_path = source_path(dl.extract_dir, dl.repo)] IN
       IF ~exists(fs, d.source_path) THEN Goes(returns(d, fs, "err", "check"))
       ELSE dl' = [d EXCEPT !.pc = "mkdest"] /\ UNCHANGED fs
    /\ DlFrame

CreateDest(ok) ==
    /\ dl.pc = "mkdest"
    /\ LET d == [dl EXCEPT !.dest_path = dest_path(dl.target_dir, dl.skill_name)] IN
       IF ~ok THEN Goes(returns(d, fs, "err", "mkdest"))
       ELSE /\ dl' = [d EXCEPT !.pc = "copy"]
            /\ fs' = create_dir_all(fs, d.dest_path)
    /\ DlFrame

\* copy_dir_all: the whole walk, or a failure after some of it
CopyFiles(ok, part) ==
    /\ dl.pc = "copy"
    /\ ok => part = walk(fs, dl.source_path)
    /\ Goes(returns(dl, copy_dir_all(fs, dl.source_path, dl.dest_path, part),
                    IF ok THEN "ok" ELSE "err", IF ok THEN "" ELSE "copy"))
    /\ DlFrame

-----------------------------------------------------------------------------
(* The inputs of download_folder *)

DU_s == Str_https \o <<"a", Slash, "b", Slash, "tree", Slash, "main", Slash, "s">>

DU_missing == Str_https \o <<"a", Slash, "b", Slash, "tree", Slash, "main", Slash, "t">>

DownloadRepos == {parse(u) : u \in {DU_s, DU_missing, IU_branch_only, IU_rooted}}

DownloadTargets == {get_target_directory("Codex", FALSE), get_target_directory("Copilot", TRUE)}

SkillNames == {<<"s">>, <<"etc">>}

\* the archive of a/b at main: a top directory b-main holding the repository
RepoDir == <<<<"b", "-", "main">>>>

ArchiveWithS ==
    {Entry(RepoDir, "dir"), Entry(RepoDir \o <<<<"s">>>>, "dir"),
     Entry(RepoDir \o <<<<"s">>, <<"f">>>>, "new")}

ArchiveBare == {Entry(RepoDir, "dir"), Entry(RepoDir \o <<<<"f">>>>, "new")}

Replies ==
    {[kind |-> "transport", body |-> {}], [kind |-> "http", body |-> {}],
     [kind |-> "ok", body |-> ArchiveWithS], [kind |-> "ok", body |-> ArchiveBare]}

\* what is on the machine before the call
BaseFiles ==
    {Entry(<<<<"tmp">>>>, "dir"), Entry(<<<<"etc">>>>, "dir"),
     Entry(<<<<"etc">>, <<"hosts">>>>, "hosts"), Entry(<<<<"work">>>>, "dir")}

\* the skill s is installed already
InstalledBefore ==
    write_file(create_dir_all(BaseFiles, dest_path(get_target_directory("Codex", FALSE), <<"s">>)),
               dest_path(get_target_directory("Codex", FALSE), <<"s">>) \o <<<<"f">>>>, "old")

InitialFileSystems == {BaseFiles, InstalledBefore}

InitDownload ==
    /\ url = <<>>
    /\ parsed = NotCalled
    /\ fileExists = TRUE
    /\ markets = <<>>
    /\ call = Idle
    /\ inst = NoInstall
    /\ dl = NoDownload
    /\ fs \in InitialFileSystems
    /\ procs = NoProcs

NextDownload ==
    \/ \E r \in DownloadRepos, t \in DownloadTargets, n \in SkillNames : DownloadFolder(r, t, n)
    \/ \E reply \in Replies : GetArchive(reply)
    \/ \E ok \in BOOLEAN : CreateTempDir(ok)
    \/ \E ok \in BOOLEAN : WriteZip(ok)
    \/ \E ok \in BOOLEAN : OpenZip(ok)
    \/ \E ok \in BOOLEAN : CreateExtractDir(ok)
    \/ \E ok \in BOOLEAN : \E part \in SUBSET dl.archive : Extract(ok, part)
    \/ CheckSource
    \/ \E ok \in BOOLEAN : CreateDest(ok)
    \/ \E ok \in BOOLEAN : \E part \in SUBSET walk(fs, dl.source_path) : CopyFiles(ok, part)

SpecDownload == InitDownload /\ [][NextDownload]_vars

-----------------------------------------------------------------------------
(* Claims about download_folder, under SpecDownload *)

\* C14: when download_folder has returned, whichever step failed or none, the temporary
\* directory created for the call and everything below it no longer exists.
C14_TempDirGoneAtReturn ==
    dl.pc = "returned" => under(fs, TempPath) = {}

\* the copy failed half way, after the archive was written and extracted
C14_Witness_CopyFailed ==
    /\ dl.pc = "returned"
    /\ dl.temp_dir = TempPath
    /\ dl.failed_at = "copy"
    /\ dl.extracted # {}

\* the source as the claim places it, relative to the extraction directory
ClaimedSource == RepoDir \o path_components(dl.repo.path)

Dest == dl.target_dir \o <<dl.skill_name>>

DestUntouched == under(fs, Dest) = under(dl.fs0, Dest)

SourceLookedUp == dl.failed_at \in {"check", "mkdest", "copy", ""}

\* C15: download_folder looks for the source at <extracted>/{repo}-{branch}/<subpath>
\* (the top directory itself for an empty subpath); when that path does not exist, the
\* download fails or the extraction fails, it returns an error and what is at
\* <destination root>/<install name> is as it was before the call; the destination is
\* changed only once download, extraction and the check of the source have succeeded.
C15_SourceCheckedBeforeDest ==
    dl.pc = "returned" =>
        /\ SourceLookedUp => dl.source_path = dl.extract_dir \o ClaimedSource
        /\ (dl.failed_at \in {"get", "extract"} \/ ~exists(dl.extracted, ClaimedSource)) =>
              /\ dl.outcome = "err"
              /\ DestUntouched
        /\ ~DestUntouched => dl.failed_at \in {"mkdest", "copy", ""}

-----------------------------------------------------------------------------
(* market.rs: add_market run by two processes on the same file; a load and a save are
   each one step *)

ProcIds == {1, 2}

Waiting == [pc |-> "idle", url |-> <<>>, loaded |-> <<>>, outcome |-> "", overwrote |-> <<>>]

RaceUrls == {U_cd, U_ab_dev, U_bad}

RaceLists == {<<>>, <<FileEntry(U_cd)>>, <<FileEntry(U_bad)>>}

InitRace ==
    /\ url = <<>>
    /\ parsed = NotCalled
    /\ fileExists = TRUE
    /\ markets \in RaceLists
    /\ call = Idle
    /\ inst = NoInstall
    /\ dl = NoDownload
    /\ fs = {}
    /\ procs = [p \in ProcIds |-> Waiting]

\* process p starts add_market(u): self.storage.load()
RaceLoad(p, u) ==
    /\ procs[p].pc = "idle"
    /\ Len(load) < MaxMarkets
    /\ procs' = [procs EXCEPT ![p] = [Waiting EXCEPT !.pc = "loaded", !.url = u, !.loaded = load]]
    /\ UNCHANGED <<url, parsed, fileExists, markets, call, inst, dl, fs>>

\* process p does the rest of add_market on the list it loaded: the check, the push and
\* self.storage.save, which replaces the file
RaceSave(p) ==
    /\ procs[p].pc = "loaded"
    /\ LET r == add_market(procs[p].loaded, procs[p].url) IN
       /\ markets' = (IF r.saved THEN r.markets ELSE markets)
       /\ fileExists' = (fileExists \/ r.saved)
       /\ procs' = [procs EXCEPT ![p] = [@ EXCEPT !.pc = "idle", !.outcome = r.outcome,
                                                  !.overwrote = load]]
    /\ UNCHANGED <<url, parsed, call, inst, dl, fs>>

NextRace ==
    \/ \E p \in ProcIds, u \in RaceUrls : RaceLoad(p, u)
    \/ \E p \in ProcIds : RaceSave(p)

SpecRace == InitRace /\ [][NextRace]_vars

\* C18: with two add_market processes whose loads and saves interleave in any order on a
\* file that started without two entries of the same url, the persisted list has no two
\* entries with the same url in any reachable state.
C18_RaceKeepsUrlsUnique ==
    \A i, j \in 1..Len(load) : load[i].url = load[j].url => i = j

\* a process added a url that the other process had added since the first one loaded
C18_Witness_SavedOverSameUrl ==
    \E p \in ProcIds :
        /\ procs[p].pc = "idle"
        /\ procs[p].outcome = "added"
        /\ procs[p].overwrote # procs[p].loaded
        /\ url_exists(procs[p].overwrote, procs[p].url)
        /\ ~url_exists(procs[p].loaded, procs[p].url)

====
